---- MODULE Spec2Model ----
(***************************************************************************)
(* Model of the Dynare IRF plotter: name lookup (short <-> long names of   *)
(* endogenous variables and exogenous shocks), extraction of the impulse   *)
(* responses from the flat field collection oo_.irfs, and the composition  *)
(* of the figure (thresholding and grid layout).                           *)
(*                                                                         *)
(* A Python string is a sequence of one-character strings, so that strip,  *)
(* endswith, slicing and concatenation are computed as the code computes   *)
(* them.  A call returns a record: exc = "" for a normal return (none =    *)
(* TRUE when the value is None), otherwise exc names the exception raised  *)
(* and msg identifies the raise statement.                                 *)
(***************************************************************************)
EXTENDS Integers, Sequences, FiniteSets, TLC

VARIABLES M_, irfs, call, ret, prev, fig, app

vars == <<M_, irfs, call, ret, prev, fig, app>>

(***************************************************************************)
(* Bounds of the model.                                                    *)
(***************************************************************************)
MaxNames == 2

MaxFields == 3

MaxHorizon == 2

MaxSeries == 7

MaxCols == 3

(***************************************************************************)
(* Return values and exceptions.                                           *)
(***************************************************************************)
Return(v) == [exc |-> "", msg |-> "", none |-> FALSE, val |-> v]

ReturnNone == [exc |-> "", msg |-> "", none |-> TRUE, val |-> <<>>]

Raise(e, m) == [exc |-> e, msg |-> m, none |-> FALSE, val |-> <<>>]

Raised(r) == r.exc # ""

(***************************************************************************)
(* Strings.                                                                *)
(***************************************************************************)
RECURSIVE lstrip(_)
lstrip(s) == IF s # <<>> /\ Head(s) = " " THEN lstrip(Tail(s)) ELSE s

RECURSIVE rstrip(_)
rstrip(s) ==
  IF s # <<>> /\ s[Len(s)] = " " THEN rstrip(SubSeq(s, 1, Len(s) - 1)) ELSE s

\* str(name).strip()
strip(s) == rstrip(lstrip(s))

\* [str(name).strip() for name in np.atleast_1d(names)]
StripAll(names) == [i \in 1..Len(names) |-> strip(names[i])]

\* name in names
In(x, names) == \E i \in 1..Len(names) : names[i] = x

\* names.index(x): the lowest position of x, counted from 1; 0 stands for the
\* ValueError that list.index raises when x is not in the list.
Index(names, x) ==
  IF In(x, names)
  THEN CHOOSE i \in 1..Len(names) :
         names[i] = x /\ \A j \in 1..(i - 1) : names[j] # x
  ELSE 0

(***************************************************************************)
(* The metadata M_: an attribute is present (has) or not; val is the raw   *)
(* array of names as loaded.                                               *)
(***************************************************************************)
Attr(names) == [has |-> TRUE, val |-> names]

NoAttr == [has |-> FALSE, val |-> <<>>]

get_endo_names(M, long) ==
  IF long
  THEN IF M.endo_names_long.has
       THEN Return(StripAll(M.endo_names_long.val))
       ELSE Raise("AttributeError", "endo_names_long")
  ELSE IF M.endo_names.has
       THEN Return(StripAll(M.endo_names.val))
       ELSE Raise("AttributeError", "endo_names")

get_endo_names_all(M) ==
  LET short == get_endo_names(M, FALSE)
      long == get_endo_names(M, TRUE)
  IN  IF Raised(short) THEN short
      ELSE IF Raised(long) THEN long
      ELSE Return(<<short.val, long.val>>)

\* Mutant of get_exo_names: a missing exo_names reads as an empty list.
get_exo_names_default(M, long) ==
  IF long
  THEN IF M.exo_names_long.has
       THEN Return(StripAll(M.exo_names_long.val))
       ELSE Raise("AttributeError", "exo_names_long")
  ELSE Return(StripAll(M.exo_names.val))

get_exo_names(M, long) ==
  IF long
  THEN IF M.exo_names_long.has
       THEN Return(StripAll(M.exo_names_long.val))
       ELSE Raise("AttributeError", "exo_names_long")
  ELSE IF ~M.exo_names.has
       THEN Raise("AttributeError", "exo_names")
       ELSE Return(StripAll(M.exo_names.val))

get_exo_names_all(M) ==
  LET short == get_exo_names(M, FALSE)
      long == get_exo_names(M, TRUE)
  IN  IF Raised(short) THEN short
      ELSE IF Raised(long) THEN long
      ELSE Return(<<short.val, long.val>>)

(***************************************************************************)
(* Name conversion.                                                        *)
(***************************************************************************)
to_endo_name_long(short_name, M) ==
  LET all == get_endo_names_all(M)
      short == all.val[1]
      long == all.val[2]
      idx == Index(short, short_name)
  IN  IF Raised(all) THEN all
      ELSE IF idx = 0 THEN Raise("KeyError", "endo_names")
      ELSE IF idx > Len(long) THEN Raise("IndexError", "long[idx]")
      ELSE Return(long[idx])

\* Mutant of to_endo_name_short: the last occurrence of the long name is used.
to_endo_name_short_last(long_name, M) ==
  LET all == get_endo_names_all(M)
      short == all.val[1]
      long == all.val[2]
      idx == IF In(long_name, long)
             THEN CHOOSE i \in 1..Len(long) :
                    long[i] = long_name /\ \A j \in (i + 1)..Len(long) : long[j] # long_name
             ELSE 0
  IN  IF Raised(all) THEN all
      ELSE IF idx = 0 THEN Raise("KeyError", "endo_names_long")
      ELSE IF idx > Len(short) THEN Raise("IndexError", "short[idx]")
      ELSE Return(short[idx])

to_endo_name_short(long_name, M) ==
  LET all == get_endo_names_all(M)
      short == all.val[1]
      long == all.val[2]
      idx == Index(long, long_name)
  IN  IF Raised(all) THEN all
      ELSE IF idx = 0 THEN Raise("KeyError", "endo_names_long")
      ELSE IF idx > Len(short) THEN Raise("IndexError", "short[idx]")
      ELSE Return(short[idx])

\* Mutant of to_exo_name_long: the comparison of short and long is inverted.
to_exo_name_long_inverted(short_name, M) ==
  LET all == get_exo_names_all(M)
      short == all.val[1]
      long == all.val[2]
      idx == Index(short, short_name)
  IN  IF Raised(all) THEN all
      ELSE IF idx = 0 THEN Raise("KeyError", "exo_names")
      ELSE IF idx > Len(long) THEN Raise("IndexError", "long[idx]")
      ELSE IF short[idx] # long[idx] THEN Return(short_name)
      ELSE Return(long[idx])

to_exo_name_long(short_name, M) ==
  LET all == get_exo_names_all(M)
      short == all.val[1]
      long == all.val[2]
      idx == Index(short, short_name)
  IN  IF Raised(all) THEN all
      ELSE IF idx = 0 THEN Raise("KeyError", "exo_names")
      ELSE IF idx > Len(long) THEN Raise("IndexError", "long[idx]")
      ELSE IF short[idx] = long[idx] THEN Return(short_name)
      ELSE Return(long[idx])

\* Mutant of to_exo_name_short: the last occurrence of the long name is used.
to_exo_name_short_last(long_name, M) ==
  LET all == get_exo_names_all(M)
      short == all.val[1]
      long == all.val[2]
      idx == IF In(long_name, long)
             THEN CHOOSE i \in 1..Len(long) :
                    long[i] = long_name /\ \A j \in (i + 1)..Len(long) : long[j] # long_name
             ELSE 0
  IN  IF Raised(all) THEN all
      ELSE IF idx = 0 THEN Raise("KeyError", "exo_names_long")
      ELSE IF idx > Len(short) THEN Raise("IndexError", "short[idx]")
      ELSE IF short[idx] = long[idx] THEN Return(long_name)
      ELSE Return(short[idx])

\* Mutant of to_exo_name_short: a name that is not found is returned as it is.
to_exo_name_short_echo(long_name, M) ==
  LET all == get_exo_names_all(M)
      short == all.val[1]
      long == all.val[2]
      idx == Index(long, long_name)
  IN  IF Raised(all) THEN all
      ELSE IF idx = 0 THEN Return(long_name)
      ELSE IF idx > Len(short) THEN Raise("IndexError", "short[idx]")
      ELSE IF short[idx] = long[idx] THEN Return(long_name)
      ELSE Return(short[idx])

to_exo_name_short(long_name, M) ==
  LET all == get_exo_names_all(M)
      short == all.val[1]
      long == all.val[2]
      idx == Index(long, long_name)
  IN  IF Raised(all) THEN all
      ELSE IF idx = 0 THEN Raise("KeyError", "exo_names_long")
      ELSE IF idx > Len(short) THEN Raise("IndexError", "short[idx]")
      ELSE IF short[idx] = long[idx] THEN Return(long_name)
      ELSE Return(short[idx])

\* convert of dynare_irf_utils.py
convert(name, M, vartype, length) ==
  IF vartype = "endo"
  THEN IF length = "short" THEN to_endo_name_short(name, M)
       ELSE IF length = "long" THEN to_endo_name_long(name, M)
       ELSE Raise("ValueError", "length")
  ELSE IF vartype = "exo"
  THEN IF length = "short" THEN to_exo_name_short(name, M)
       ELSE IF length = "long" THEN to_exo_name_long(name, M)
       ELSE Raise("ValueError", "length")
  ELSE Raise("ValueError", "vartype")

\* convert of main.py: an unknown length falls off the end of the if/elif
\* chain and the function returns None.
main_convert(name, M, vartype, length) ==
  IF vartype = "endo"
  THEN IF length = "short" THEN to_endo_name_short(name, M)
       ELSE IF length = "long" THEN to_endo_name_long(name, M)
       ELSE ReturnNone
  ELSE IF vartype = "exo"
  THEN IF length = "short" THEN to_exo_name_short(name, M)
       ELSE IF length = "long" THEN to_exo_name_long(name, M)
       ELSE ReturnNone
  ELSE Raise("ValueError", "vartype")

(***************************************************************************)
(* Ordering of strings (Python compares code points; a proper prefix is    *)
(* smaller), used by dir() and sorted().                                   *)
(***************************************************************************)
Ord(c) ==
  CASE c = " " -> 32
    [] c = "A" -> 65
    [] c = "B" -> 66
    [] c = "L" -> 76
    [] c = "_" -> 95
    [] c = "a" -> 97
    [] c = "b" -> 98
    [] c = "c" -> 99
    [] c = "d" -> 100
    [] c = "e" -> 101
    [] c = "f" -> 102
    [] c = "g" -> 103
    [] c = "h" -> 104
    [] c = "i" -> 105
    [] c = "j" -> 106
    [] c = "o" -> 111
    [] c = "u" -> 117
    [] c = "x" -> 120
    [] c = "z" -> 122

RECURSIVE StrLeq(_, _)
StrLeq(s, t) ==
  IF s = <<>> THEN TRUE
  ELSE IF t = <<>> THEN FALSE
  ELSE IF Head(s) # Head(t) THEN Ord(Head(s)) < Ord(Head(t))
  ELSE StrLeq(Tail(s), Tail(t))

\* Mutant of Sorted: the largest name first.
RECURSIVE Sorted_descending(_)
Sorted_descending(S) ==
  IF S = {} THEN <<>>
  ELSE LET m == CHOOSE x \in S : \A y \in S : StrLeq(y, x)
       IN  <<m>> \o Sorted_descending(S \ {m})

\* sorted(set(S)) as a list
RECURSIVE Sorted(_)
Sorted(S) ==
  IF S = {} THEN <<>>
  ELSE LET m == CHOOSE x \in S : \A y \in S : StrLeq(x, y)
       IN  <<m>> \o Sorted(S \ {m})

\* full_name.endswith(suffix)
EndsWith(full_name, suffix) ==
  /\ Len(suffix) <= Len(full_name)
  /\ SubSeq(full_name, Len(full_name) - Len(suffix) + 1, Len(full_name)) = suffix

\* name.startswith("__")
StartsWithDunder(name) == Len(name) >= 2 /\ name[1] = "_" /\ name[2] = "_"

(***************************************************************************)
(* The field collection oo_.irfs: a function from field names to values.   *)
(* A value is a numpy array (array = TRUE, data its elements) or anything  *)
(* else (array = FALSE), such as the scalar a 1x1 field is squeezed to.    *)
(***************************************************************************)
\* A float is counted in units of 1e-12, or is NaN.
Num(x) == [nan |-> FALSE, v |-> x]

NaN == [nan |-> TRUE, v |-> 0]

Arr(v) == [array |-> TRUE, data |-> v]

NotArr == [array |-> FALSE, data |-> <<>>]

\* The names of irf_dict in the order of dir(irfs), which is sorted.
IrfNames(fields) ==
  Sorted({n \in DOMAIN fields : ~StartsWithDunder(n) /\ fields[n].array})

\* Mutant of FirstShock: the inner loop does not break, the last match stays.
FirstShock_last(full_name, exo_names) ==
  IF \E k \in 1..Len(exo_names) : EndsWith(full_name, <<"_">> \o exo_names[k])
  THEN CHOOSE k \in 1..Len(exo_names) :
         /\ EndsWith(full_name, <<"_">> \o exo_names[k])
         /\ \A j \in (k + 1)..Len(exo_names) : ~EndsWith(full_name, <<"_">> \o exo_names[j])
  ELSE 0

\* The position in exo_names of the first shock with full_name.endswith("_" + shock),
\* 0 when the inner loop ends without a match.
FirstShock(full_name, exo_names) ==
  IF \E k \in 1..Len(exo_names) : EndsWith(full_name, <<"_">> \o exo_names[k])
  THEN CHOOSE k \in 1..Len(exo_names) :
         /\ EndsWith(full_name, <<"_">> \o exo_names[k])
         /\ \A j \in 1..(k - 1) : ~EndsWith(full_name, <<"_">> \o exo_names[j])
  ELSE 0

\* Mutant of VarPart: the slice keeps the separator, full_name[: -len(shock)].
VarPart_keepsep(full_name, shock) == SubSeq(full_name, 1, Len(full_name) - Len(shock))

\* full_name[: -(len(shock) + 1)]
VarPart(full_name, shock) == SubSeq(full_name, 1, Len(full_name) - (Len(shock) + 1))

\* Mutant of Matched: the prefix is not looked up in endo_names.
Matched_anyvar(full_name, endo_names, exo_names) ==
  LET k == FirstShock(full_name, exo_names)
  IN  IF k = 0 THEN [hit |-> FALSE, var |-> <<>>, shock |-> <<>>]
      ELSE [hit |-> TRUE, var |-> VarPart(full_name, exo_names[k]), shock |-> exo_names[k]]

\* One pass of the outer loop body: the (var, shock) appended for full_name, if any.
Matched(full_name, endo_names, exo_names) ==
  LET k == FirstShock(full_name, exo_names)
  IN  IF k = 0 THEN [hit |-> FALSE, var |-> <<>>, shock |-> <<>>]
      ELSE IF In(VarPart(full_name, exo_names[k]), endo_names)
      THEN [hit |-> TRUE, var |-> VarPart(full_name, exo_names[k]), shock |-> exo_names[k]]
      ELSE [hit |-> FALSE, var |-> <<>>, shock |-> <<>>]

\* The keys of used_vars_by_shock in insertion order: a shock enters the
\* defaultdict at the first field appended to it.
RECURSIVE ShockKeys(_, _, _, _)
ShockKeys(names, endo_names, exo_names, acc) ==
  IF names = <<>> THEN acc
  ELSE LET m == Matched(Head(names), endo_names, exo_names)
       IN  ShockKeys(Tail(names), endo_names, exo_names,
                     IF m.hit /\ ~In(m.shock, acc) THEN Append(acc, m.shock) ELSE acc)

\* A dict as its keys in insertion order and the mapping itself.
Dict(keys, map) == [keys |-> keys, map |-> map]

SeqToSet(s) == {s[i] : i \in 1..Len(s)}

\* Mutant of get_irf_endo_vars: an empty result is returned, not raised.
get_irf_endo_vars_noraise(fields, M) ==
  LET endo == get_endo_names(M, FALSE)
      exo == get_exo_names(M, FALSE)
      names == IrfNames(fields)
      keys == ShockKeys(names, endo.val, exo.val, <<>>)
      used == [shock \in SeqToSet(keys) |->
                Sorted({Matched(names[i], endo.val, exo.val).var :
                          i \in {j \in 1..Len(names) :
                                   /\ Matched(names[j], endo.val, exo.val).hit
                                   /\ Matched(names[j], endo.val, exo.val).shock = shock}})]
  IN  IF Raised(endo) THEN endo
      ELSE IF Raised(exo) THEN exo
      ELSE Return(Dict(keys, used))

get_irf_endo_vars(fields, M) ==
  LET endo == get_endo_names(M, FALSE)
      exo == get_exo_names(M, FALSE)
      names == IrfNames(fields)
      keys == ShockKeys(names, endo.val, exo.val, <<>>)
      used == [shock \in SeqToSet(keys) |->
                Sorted({Matched(names[i], endo.val, exo.val).var :
                          i \in {j \in 1..Len(names) :
                                   /\ Matched(names[j], endo.val, exo.val).hit
                                   /\ Matched(names[j], endo.val, exo.val).shock = shock}})]
  IN  IF Raised(endo) THEN endo
      ELSE IF Raised(exo) THEN exo
      ELSE IF keys = <<>> THEN Raise("ValueError", "No IRF variable names found")
      ELSE Return(Dict(keys, used))

\* pd.DataFrame(var_data): the columns in the order of the dict; the
\* constructor raises ValueError when the arrays differ in length.
DataFrame(columns, data) == [columns |-> columns, data |-> data]

Ragged(columns, data) ==
  \E i, j \in 1..Len(columns) : Len(data[columns[i]]) # Len(data[columns[j]])

\* Mutant of VarData: only the first variable listed is looked up.
VarData_head(fields, vars_for_shock, shock) ==
  SelectSeq(SubSeq(vars_for_shock, 1, 1),
            LAMBDA var : In(var \o <<"_">> \o shock, IrfNames(fields)))

\* The comprehension var_data of get_irf for one shock: the variables whose
\* field var + "_" + shock is in irf_dict.
VarData(fields, vars_for_shock, shock) ==
  SelectSeq(vars_for_shock,
            LAMBDA var : In(var \o <<"_">> \o shock, IrfNames(fields)))

RECURSIVE KeepKeys(_, _)
KeepKeys(keys, S) ==
  IF keys = <<>> THEN <<>>
  ELSE IF Head(keys) \in S THEN <<Head(keys)>> \o KeepKeys(Tail(keys), S)
  ELSE KeepKeys(Tail(keys), S)

get_irf(fields, M) ==
  LET used == get_irf_endo_vars(fields, M)
      shocks == {s \in SeqToSet(used.val.keys) :
                   VarData(fields, used.val.map[s], s) # <<>>}
      table(s) ==
        LET cols == VarData(fields, used.val.map[s], s)
        IN  DataFrame(cols,
                      [var \in SeqToSet(cols) |-> fields[var \o <<"_">> \o s].data])
  IN  IF Raised(used) THEN used
      ELSE IF \E s \in shocks : Ragged(table(s).columns, table(s).data)
      THEN Raise("ValueError", "DataFrame")
      ELSE IF shocks = {} THEN Raise("ValueError", "No IRF data found")
      ELSE Return(Dict(KeepKeys(used.val.keys, shocks), [s \in shocks |-> table(s)]))

(***************************************************************************)
(* Composition of the figure: plot_irf_df.                                 *)
(***************************************************************************)
\* irf_threshold = 1e-10, in units of 1e-12
IrfThreshold == 100

Abs(x) == IF x < 0 THEN -x ELSE x

\* np.nanmax(np.abs(arr)): the largest absolute value that is not NaN; NaN
\* when every value is.
NanMaxAbs(arr) ==
  IF \A i \in 1..Len(arr) : arr[i].nan THEN NaN
  ELSE Num(CHOOSE m \in {Abs(arr[i].v) : i \in {k \in 1..Len(arr) : ~arr[k].nan}} :
             \A i \in 1..Len(arr) : ~arr[i].nan => Abs(arr[i].v) <= m)

\* Mutant of Thresholded: the comparison is <=.
Thresholded_le(arr, irf_threshold) ==
  IF ~NanMaxAbs(arr).nan /\ NanMaxAbs(arr).v <= irf_threshold
  THEN [i \in 1..Len(arr) |-> Num(0)]
  ELSE arr

\* The column after the thresholding loop: a comparison with NaN is false.
Thresholded(arr, irf_threshold) ==
  IF ~NanMaxAbs(arr).nan /\ NanMaxAbs(arr).v < irf_threshold
  THEN [i \in 1..Len(arr) |-> Num(0)]
  ELSE arr

\* Mutant of n_rows_of: the quotient rounded down, and one more row.
n_rows_floor_plus_one(n_series, n_cols) == (n_series \div n_cols) + 1

\* math.ceil(n_series / n_cols)
n_rows_of(n_series, n_cols) ==
  IF n_series % n_cols = 0 THEN n_series \div n_cols ELSE (n_series \div n_cols) + 1

\* An Axes of the grid: what was plotted on it, its title, and whether it is shown.
PlottedAxes(title, data) ==
  [visible |-> TRUE, plotted |-> TRUE, title |-> title, data |-> data]

HiddenAxes == [visible |-> FALSE, plotted |-> FALSE, title |-> <<>>, data |-> <<>>]

\* The title of the i-th panel.
PanelTitle(endo_names, i, M, useM) ==
  IF useM THEN convert(endo_names[i], M, "endo", "long") ELSE Return(endo_names[i])

\* The suptitle argument is None: the first pass of the loop sets it to the
\* long name of the shock when M_ is given; otherwise None is formatted.
Suptitle(shock_name, M, useM) ==
  IF useM THEN convert(shock_name, M, "exo", "long") ELSE ReturnNone

\* plot_irf_df(df, endo_names, shock_name, n_cols, M_) with M_ given or None.
plot_irf_df(df, endo_names, shock_name, n_cols, M, useM, irf_threshold) ==
  LET n_series == Len(endo_names)
      n_rows == n_rows_of(n_series, n_cols)
      title(i) == PanelTitle(endo_names, i, M, useM)
      sup == Suptitle(shock_name, M, useM)
      failing == {i \in 1..n_series : Raised(title(i))}
      axes == [j \in 1..(n_rows * n_cols) |->
                 IF j <= n_series
                 THEN PlottedAxes(title(j).val,
                                  Thresholded(df.data[endo_names[j]], irf_threshold))
                 ELSE HiddenAxes]
  IN  IF \E i \in 1..n_series : ~In(endo_names[i], df.columns)
      THEN Raise("KeyError", "df[endo_names]")
      ELSE IF \E i \in 1..n_series : df.data[endo_names[i]] = <<>>
      THEN Raise("ValueError", "nanmax")
      ELSE IF n_rows = 0 THEN Raise("ValueError", "subplots")
      ELSE IF 1 \in failing THEN title(1)
      ELSE IF Raised(sup) THEN sup
      ELSE IF failing # {} THEN title(CHOOSE i \in failing : \A k \in failing : i <= k)
      ELSE Return([n_rows |-> n_rows, n_cols |-> n_cols, axes |-> axes,
                   suptitle |-> [none |-> sup.none, name |-> sup.val]])

(***************************************************************************)
(* Inputs.  The raw names a source may carry: a name can be padded with    *)
(* blanks (a MATLAB char matrix pads its rows), two long names can be      *)
(* equal, a shock's long name can repeat its short name, and a name can    *)
(* contain the separator "_".                                              *)
(***************************************************************************)
EndoShortRaw == << <<"a">>, <<"b", " ">>, <<"a", "_", "x">> >>

EndoLongRaw == << <<"A">>, <<"B", " ">> >>

ExoShortRaw == << <<"e">>, <<"u">>, <<"x", "_", "e">> >>

ExoLongRaw == << <<"e", " ">>, <<"L">> >>

\* The lists of at most n names drawn from pool with repetition.
RECURSIVE Lists(_, _)
Lists(pool, n) ==
  IF n = 0 THEN {<<>>}
  ELSE Lists(pool, n - 1) \cup
       {Append(l, x) : l \in {m \in Lists(pool, n - 1) : Len(m) = n - 1},
                       x \in SeqToSet(pool)}

\* The lists of at most n distinct names of pool, in the order of pool.
Sublists(pool, n) ==
  {SelectSeq(pool, LAMBDA x : x \in S) :
     S \in {T \in SUBSET SeqToSet(pool) : Cardinality(T) <= n}}

\* The lists of at most n distinct names of pool, in any order.
Arrangements(pool, n) ==
  {l \in Lists(pool, n) : \A i, j \in 1..Len(l) : i # j => l[i] # l[j]}

\* A short and a long attribute, index-aligned.
AlignedPairs(shorts, longPool) ==
  UNION {{<<Attr(sh), Attr(lo)>> :
            lo \in {l \in Lists(longPool, Len(sh)) : Len(l) = Len(sh)}} :
         sh \in shorts}

\* The same, and the pairs with one or both attributes missing.
MaybePairs(shorts, longPool, n) ==
  AlignedPairs(shorts, longPool)
    \cup {<<NoAttr, Attr(lo)>> : lo \in Lists(longPool, n)}
    \cup {<<Attr(sh), NoAttr>> : sh \in shorts}
    \cup {<<NoAttr, NoAttr>>}

Meta(endo, exo) ==
  [endo_names |-> endo[1], endo_names_long |-> endo[2],
   exo_names |-> exo[1], exo_names_long |-> exo[2]]

(***************************************************************************)
(* State.  M_ and irfs are the loaded source; call is the last call made,  *)
(* ret what it returned or raised, prev the call before it when the last   *)
(* call continues from it; fig is the figure last composed; app is the run *)
(* of the Streamlit script app.py (none when the functions are called      *)
(* directly).                                                              *)
(***************************************************************************)
NoApp == [stage |-> "none"]

NoCall == [fn |-> "load"]

NoPrev == [kind |-> "none"]

NoFig == ReturnNone

Vartypes == {"endo", "exo", "other"}

Lengths == {"short", "long", "other"}

Unknown == <<"z">>

\* The names asked for: every name of the pools as stored (stripped) and as
\* loaded (raw), and a name that is in no list.
EndoArgs ==
  SeqToSet(EndoShortRaw) \cup SeqToSet(StripAll(EndoShortRaw))
    \cup SeqToSet(StripAll(EndoLongRaw)) \cup {Unknown}

ExoArgs ==
  SeqToSet(StripAll(ExoShortRaw)) \cup SeqToSet(ExoLongRaw)
    \cup SeqToSet(StripAll(ExoLongRaw)) \cup {Unknown}

Args(vartype) ==
  IF vartype = "endo" THEN EndoArgs
  ELSE IF vartype = "exo" THEN ExoArgs
  ELSE {Unknown}

ConvertCall(fn, name, vartype, length) ==
  [fn |-> fn, name |-> name, vartype |-> vartype, length |-> length]

\* A source whose fields are of no concern to the name lookups.
SampleFields == (<<"a", "_", "e">> :> Arr(<<Num(1)>>))

InitNames ==
  /\ M_ \in {Meta(endo, exo) :
               endo \in MaybePairs(Sublists(EndoShortRaw, MaxNames),
                                   EndoLongRaw, MaxNames),
               exo \in MaybePairs(Sublists(ExoShortRaw, MaxNames),
                                  ExoLongRaw, MaxNames)}
  /\ irfs = SampleFields
  /\ call = NoCall
  /\ ret = ReturnNone
  /\ prev = NoPrev
  /\ fig = NoFig
  /\ app = NoApp

\* convert(name, M_, vartype, length) of dynare_irf_utils.py
Convert(name, vartype, length) ==
  /\ call' = ConvertCall("convert", name, vartype, length)
  /\ ret' = convert(name, M_, vartype, length)
  /\ prev' = NoPrev
  /\ UNCHANGED <<app, M_, irfs, fig>>

\* The name a conversion returned is converted back to the other length.
ConvertBack ==
  /\ call.fn = "convert"
  /\ prev.kind = "none"
  /\ ~Raised(ret)
  /\ call.length \in {"short", "long"}
  /\ call' = ConvertCall("convert", ret.val, call.vartype,
                         IF call.length = "long" THEN "short" ELSE "long")
  /\ ret' = convert(ret.val, M_, call.vartype,
                    IF call.length = "long" THEN "short" ELSE "long")
  /\ prev' = [kind |-> "call", call |-> call, ret |-> ret]
  /\ UNCHANGED <<app, M_, irfs, fig>>

\* convert(name, M_, vartype, length) of main.py
MainConvert(name, vartype, length) ==
  /\ call' = ConvertCall("main.convert", name, vartype, length)
  /\ ret' = main_convert(name, M_, vartype, length)
  /\ prev' = NoPrev
  /\ UNCHANGED <<app, M_, irfs, fig>>

GetEndoNamesAll ==
  /\ call' = [fn |-> "get_endo_names_all"]
  /\ ret' = get_endo_names_all(M_)
  /\ prev' = NoPrev
  /\ UNCHANGED <<app, M_, irfs, fig>>

GetExoNamesAll ==
  /\ call' = [fn |-> "get_exo_names_all"]
  /\ ret' = get_exo_names_all(M_)
  /\ prev' = NoPrev
  /\ UNCHANGED <<app, M_, irfs, fig>>

GetIrfEndoVars ==
  /\ call' = [fn |-> "get_irf_endo_vars"]
  /\ ret' = get_irf_endo_vars(irfs, M_)
  /\ prev' = NoPrev
  /\ UNCHANGED <<app, M_, irfs, fig>>

GetIrf ==
  /\ call' = [fn |-> "get_irf"]
  /\ ret' = get_irf(irfs, M_)
  /\ prev' = NoPrev
  /\ UNCHANGED <<app, M_, irfs, fig>>

\* The functions keep no state between calls: what a call returns depends on
\* the loaded source and its arguments alone.  A run therefore makes one call
\* on the source it loaded, and the calls that continue from its result.
Idle == call.fn = "load"

NextNames ==
  \/ /\ Idle
     /\ \E vartype \in Vartypes, length \in Lengths :
          \E name \in Args(vartype) : Convert(name, vartype, length)
  \/ ConvertBack
  \/ /\ Idle
     /\ \E vartype \in Vartypes, length \in Lengths :
          \E name \in Args(vartype) : MainConvert(name, vartype, length)
  \/ Idle /\ GetEndoNamesAll
  \/ Idle /\ GetExoNamesAll
  \/ Idle /\ GetIrfEndoVars
  \/ Idle /\ GetIrf

SpecNames == InitNames /\ [][NextNames]_vars

(***************************************************************************)
(* Name lookup: the claims.                                                *)
(***************************************************************************)
\* The names of a category as the lookups see them (both lists present).
HasBoth(vartype) ==
  IF vartype = "endo" THEN M_.endo_names.has /\ M_.endo_names_long.has
  ELSE M_.exo_names.has /\ M_.exo_names_long.has

ShortNames(vartype) ==
  IF vartype = "endo" THEN StripAll(M_.endo_names.val) ELSE StripAll(M_.exo_names.val)

LongNames(vartype) ==
  IF vartype = "endo" THEN StripAll(M_.endo_names_long.val)
  ELSE StripAll(M_.exo_names_long.val)

\* The last call converted back the long name that convert returned for a short name.
RoundTripDone ==
  /\ prev.kind = "call"
  /\ call.fn = "convert"
  /\ prev.call.length = "long"
  /\ prev.call.vartype \in {"endo", "exo"}

\* C1 as claimed: for every short name s of the endogenous or of the exogenous
\* list, converting s to its long name and that long name back to a short
\* name returns s.
C1_RoundTripAsClaimed ==
  RoundTripDone => ~Raised(ret) /\ ret.val = prev.call.name

\* The long name of the short name s occurs nowhere earlier in the long list.
FirstOfItsLongName(vartype, s) ==
  LET i == Index(ShortNames(vartype), s)
  IN  Index(LongNames(vartype), LongNames(vartype)[i]) = i

\* C1 as amended: for every short name s whose long name does not occur at an
\* earlier index of the long list (so for every s when the long names are
\* distinct), converting s to long and back to short returns s; a short name
\* whose long name occurs earlier comes back as the short name at the first
\* occurrence.
C1_RoundTrip ==
  RoundTripDone =>
    /\ ~Raised(ret)
    /\ FirstOfItsLongName(prev.call.vartype, prev.call.name)
         => ret.val = prev.call.name
    /\ ret.val = ShortNames(prev.call.vartype)[
                   Index(LongNames(prev.call.vartype), prev.ret.val)]

C1_Witness ==
  /\ RoundTripDone
  /\ Len(ShortNames(prev.call.vartype)) = 2
  /\ Index(ShortNames(prev.call.vartype), prev.call.name) = 2
  /\ prev.ret.val # prev.call.name
  /\ ret = Return(prev.call.name)

\* The last call looked up the short name of a name that occurs at several
\* indices of the long list of its category.
DuplicateLookup ==
  /\ call.fn = "convert"
  /\ call.vartype \in {"endo", "exo"}
  /\ call.length = "short"
  /\ HasBoth(call.vartype)
  /\ \E i, j \in 1..Len(LongNames(call.vartype)) :
        /\ i # j
        /\ LongNames(call.vartype)[i] = call.name
        /\ LongNames(call.vartype)[j] = call.name

\* C21: when a long name occurs at several indices of the long list,
\* convert(long, vartype, 'short') returns the short name at the lowest such
\* index, for the endogenous and for the exogenous names.
C21_FirstDuplicate ==
  DuplicateLookup =>
    \E i \in 1..Len(LongNames(call.vartype)) :
      /\ LongNames(call.vartype)[i] = call.name
      /\ \A j \in 1..(i - 1) : LongNames(call.vartype)[j] # call.name
      /\ ret = Return(ShortNames(call.vartype)[i])

\* A shock's long name is held by two shocks and the lookup returned the
\* first of them, whose short name differs from the long name.
C21_Witness ==
  /\ DuplicateLookup
  /\ call.vartype = "exo"
  /\ ret = Return(ShortNames("exo")[1])
  /\ ret.val # call.name

\* C5: convert(u, 'exo', 'long') returns u for every shock u whose short and
\* long names are identical, and the long name at the index of u for every
\* shock whose short and long names differ.
C5_Elision ==
  (/\ call.fn = "convert"
   /\ call.vartype = "exo"
   /\ call.length = "long"
   /\ HasBoth("exo")
   /\ In(call.name, ShortNames("exo")))
  => LET i == Index(ShortNames("exo"), call.name)
     IN  IF ShortNames("exo")[i] = LongNames("exo")[i]
         THEN ret = Return(call.name)
         ELSE ret = Return(LongNames("exo")[i]) /\ ret.val # call.name

C5_Witness ==
  /\ call.fn = "convert"
  /\ call.vartype = "exo"
  /\ call.length = "long"
  /\ HasBoth("exo")
  /\ Len(ShortNames("exo")) = 2
  /\ ShortNames("exo")[1] = call.name
  /\ LongNames("exo")[1] = call.name
  /\ LongNames("exo")[2] # ShortNames("exo")[2]
  /\ ret = Return(call.name)

\* The list a conversion looks the name up in.
LookupList(vartype, length) ==
  IF length = "long" THEN ShortNames(vartype) ELSE LongNames(vartype)

\* C6: with vartype endo or exo and length short or long, convert raises the
\* name-not-found error (KeyError) and returns nothing for every name that is
\* not in the list it is looked up in: the short list when converting to
\* long, the long list when converting to short.
C6_NameNotFound ==
  (/\ call.fn = "convert"
   /\ call.vartype \in {"endo", "exo"}
   /\ call.length \in {"short", "long"}
   /\ HasBoth(call.vartype)
   /\ ~In(call.name, LookupList(call.vartype, call.length)))
  => ret.exc = "KeyError" /\ ret.val = <<>> /\ ~ret.none

C6_Witness ==
  /\ call.fn = "convert"
  /\ call.vartype = "exo"
  /\ call.length = "short"
  /\ HasBoth("exo")
  /\ In(call.name, ShortNames("exo"))
  /\ ~In(call.name, LongNames("exo"))
  /\ ret.exc = "KeyError"

\* C7: convert raises the invalid-argument error (ValueError) whenever vartype
\* is not endo/exo or length is not short/long, and never returns a value,
\* None included.  The claim names convert of dynare_irf_utils.py and of
\* main.py.
C7_InvalidArgument ==
  (/\ call.fn \in {"convert", "main.convert"}
   /\ \/ call.vartype \notin {"endo", "exo"}
      \/ call.length \notin {"short", "long"})
  => ret.exc = "ValueError"

\* C8 as claimed: reading the names of a source fails with the
\* missing-attribute error (AttributeError) if any of the four name lists is
\* absent, whichever it is.
AnyListAbsent ==
  \/ ~M_.endo_names.has
  \/ ~M_.endo_names_long.has
  \/ ~M_.exo_names.has
  \/ ~M_.exo_names_long.has

C8_MissingAttributeAsClaimed ==
  (/\ call.fn \in {"get_endo_names_all", "get_exo_names_all",
                   "get_irf_endo_vars", "get_irf"}
   /\ AnyListAbsent)
  => ret.exc = "AttributeError"

\* C8 as amended: no call reads all four lists; a call fails with the
\* missing-attribute error exactly when a list that it reads is absent:
\* get_endo_names_all the two endogenous lists, get_exo_names_all the two
\* exogenous lists, get_irf_endo_vars and get_irf the two short lists.
C8_MissingAttribute ==
  /\ call.fn = "get_endo_names_all" =>
       (ret.exc = "AttributeError"
          <=> ~M_.endo_names.has \/ ~M_.endo_names_long.has)
  /\ call.fn = "get_exo_names_all" =>
       (ret.exc = "AttributeError"
          <=> ~M_.exo_names.has \/ ~M_.exo_names_long.has)
  /\ call.fn \in {"get_irf_endo_vars", "get_irf"} =>
       (ret.exc = "AttributeError" <=> ~M_.endo_names.has \/ ~M_.exo_names.has)

C8_Witness ==
  /\ call.fn = "get_irf_endo_vars"
  /\ ~M_.endo_names_long.has
  /\ ~M_.exo_names_long.has
  /\ ~Raised(ret)

(***************************************************************************)
(* Extraction: the sources and the calls.                                  *)
(***************************************************************************)
\* The field names a source may carry: "<var>_<shock>" for names of the
\* pools, among them a name that reads as a_x + e and as a + x_e, and a
\* name with no shock in it.
FieldPool ==
  << <<"a", "_", "e">>, <<"b", "_", "e">>, <<"a", "_", "u">>,
     <<"a", "_", "x", "_", "e">>, <<"f", "o", "o">> >>

\* The response stored in the k-th field of the pool: all the responses of
\* a source have the same horizon, and no two fields the same response.
FieldVector(k) == <<Num(k), Num(k + 10)>>

\* The field collections of at most n fields: each field an array or not.
FieldCollections(n) ==
  UNION {[S -> {TRUE, FALSE}] :
           S \in {T \in SUBSET SeqToSet(FieldPool) : Cardinality(T) <= n}}

FieldsOf(isArray) ==
  [name \in DOMAIN isArray |->
     IF isArray[name] THEN Arr(FieldVector(Index(FieldPool, name))) ELSE NotArr]

\* The long names recorded for a list of short names.
LongFor(shorts, longPool) ==
  [i \in 1..Len(shorts) |-> longPool[((i - 1) % Len(longPool)) + 1]]

InitExtract ==
  /\ M_ \in {Meta(<<Attr(endo), Attr(LongFor(endo, EndoLongRaw))>>,
                  <<Attr(exo), Attr(LongFor(exo, ExoLongRaw))>>) :
               endo \in Arrangements(EndoShortRaw, MaxNames),
               exo \in Arrangements(ExoShortRaw, MaxNames)}
  /\ irfs \in {FieldsOf(isArray) : isArray \in FieldCollections(MaxFields)}
  /\ call = NoCall
  /\ ret = ReturnNone
  /\ prev = NoPrev
  /\ fig = NoFig
  /\ app = NoApp

\* A source with one more field is loaded and extracted: the same result
\* file with a further field stored in oo_.irfs.
LoadExtra(name, isArray) ==
  /\ call.fn = "get_irf"
  /\ prev.kind = "none"
  /\ name \notin DOMAIN irfs
  /\ irfs' = FieldsOf([n \in DOMAIN irfs \cup {name} |->
                         IF n = name THEN isArray ELSE irfs[n].array])
  /\ call' = [fn |-> "get_irf"]
  /\ ret' = get_irf(irfs', M_)
  /\ prev' = [kind |-> "irfs", irfs |-> irfs, ret |-> ret]
  /\ UNCHANGED <<app, M_, fig>>

NextExtract ==
  \/ Idle /\ GetIrfEndoVars
  \/ Idle /\ GetIrf
  \/ \E name \in SeqToSet(FieldPool), isArray \in {TRUE, FALSE} :
       LoadExtra(name, isArray)

SpecExtract == InitExtract /\ [][NextExtract]_vars

(***************************************************************************)
(* Extraction: the claims.                                                 *)
(***************************************************************************)
EndoKnown == SeqToSet(StripAll(M_.endo_names.val))

ExoList == StripAll(M_.exo_names.val)

FieldName(v, s) == v \o <<"_">> \o s

ArrayFields(fields) == {f \in DOMAIN fields : fields[f].array}

\* The shock a field name is matched with: the first shock of the stored
\* list whose "_<shock>" ends the name.
IsMatchedShock(f, s) ==
  \E k \in 1..Len(ExoList) :
    /\ ExoList[k] = s
    /\ EndsWith(f, <<"_">> \o s)
    /\ \A j \in 1..(k - 1) : ~EndsWith(f, <<"_">> \o ExoList[j])

\* The field f is named "<v>_<s>" with s its matched shock and v a known variable.
Yields(f, v, s) == f = FieldName(v, s) /\ IsMatchedShock(f, s) /\ v \in EndoKnown

NoDataError(r) == r.exc = "ValueError" /\ r.msg \in {"No IRF variable names found",
                                                      "No IRF data found"}

C3_NoData ==
  (call.fn \in {"get_irf", "get_irf_endo_vars"}) =>
    /\ NoDataError(ret) <=>
         ~\E f \in ArrayFields(irfs) : \E v \in EndoKnown : \E s \in SeqToSet(ExoList) :
             Yields(f, v, s)
    /\ (\A f \in ArrayFields(irfs) : \A s \in SeqToSet(ExoList) :
          ~EndsWith(f, <<"_">> \o s)) => NoDataError(ret)
    /\ ~Raised(ret) =>
         /\ ret.val.keys # <<>>
         /\ DOMAIN ret.val.map # {}
         /\ \A s \in DOMAIN ret.val.map :
              IF call.fn = "get_irf"
              THEN ret.val.map[s].columns # <<>> /\ DOMAIN ret.val.map[s].data # {}
              ELSE ret.val.map[s] # <<>>

\* Fields there are, of known shocks even, and none of a known variable.
C3_Witness ==
  /\ call.fn = "get_irf"
  /\ NoDataError(ret)
  /\ \E f \in ArrayFields(irfs) : \E s \in SeqToSet(ExoList) : EndsWith(f, <<"_">> \o s)
  /\ Cardinality(ArrayFields(irfs)) >= 2

\* The field added to the source that was extracted before.
ExtraFields == DOMAIN irfs \ DOMAIN prev.irfs

\* C4: when extraction succeeds on a field collection F, it succeeds on F
\* with one more field whose name is "<v>_<s>" for no known variable v and
\* known shock s, and returns the same collection.
C4_UnrelatedField ==
  (/\ prev.kind = "irfs"
   /\ ~Raised(prev.ret)
   /\ \A f \in ExtraFields : \A v \in EndoKnown : \A s \in SeqToSet(ExoList) :
        f # FieldName(v, s))
  => ret = prev.ret

C4_Witness ==
  /\ prev.kind = "irfs"
  /\ ~Raised(prev.ret)
  /\ ExtraFields = {<<"f", "o", "o">>}
  /\ irfs[<<"f", "o", "o">>].array
  /\ Cardinality(DOMAIN prev.ret.val.map) = 2
  /\ ret = prev.ret

\* Strictly ascending in the order of code points: sorted, no duplicates.
Ascending(l) ==
  \A i \in 1..(Len(l) - 1) : StrLeq(l[i], l[i + 1]) /\ l[i] # l[i + 1]

\* C12: get_irf_endo_vars returns, for each shock of its result, a sorted
\* list without duplicates, each element a known endogenous short name.
C12_SortedVars ==
  (call.fn = "get_irf_endo_vars" /\ ~Raised(ret)) =>
    \A s \in DOMAIN ret.val.map :
      /\ Ascending(ret.val.map[s])
      /\ SeqToSet(ret.val.map[s]) \subseteq EndoKnown

\* The variables are stored as b, a and listed as a, b.
C12_Witness ==
  /\ call.fn = "get_irf_endo_vars"
  /\ ~Raised(ret)
  /\ StripAll(M_.endo_names.val) = << <<"b">>, <<"a">> >>
  /\ <<"e">> \in DOMAIN ret.val.map
  /\ ret.val.map[<<"e">>] = << <<"a">>, <<"b">> >>

\* The shocks of the stored list whose "_<shock>" ends the field name f.
SuffixShocks(f) == {k \in 1..Len(ExoList) : EndsWith(f, <<"_">> \o ExoList[k])}

\* The variable v is listed under the shock s.
Listed(v, s) == ~Raised(ret) /\ s \in DOMAIN ret.val.map /\ In(v, ret.val.map[s])

\* C13: each field name is tested against the "_<shock>" suffixes in the
\* order of the exogenous short-name list and the first shock that matches
\* is the only one considered: if the rest of the name is a known endogenous
\* short name the variable is listed under that shock, and if it is not the
\* field is dropped, it lists no variable under any later shock.
C13_FirstMatch ==
  call.fn = "get_irf_endo_vars" =>
    \A f \in ArrayFields(irfs) :
      SuffixShocks(f) # {} =>
        LET k == CHOOSE i \in SuffixShocks(f) : \A j \in SuffixShocks(f) : i <= j
            rest == SubSeq(f, 1, Len(f) - Len(ExoList[k]) - 1)
        IN  IF rest \in EndoKnown
            THEN Listed(rest, ExoList[k])
            ELSE \A j \in SuffixShocks(f) : \A v \in EndoKnown :
                   f = FieldName(v, ExoList[j]) => ~Listed(v, ExoList[j])

\* Shocks e, x_e in this order, variable a: the field a_x_e ends in "_e",
\* a_x is no variable, and a is not listed under x_e.
C13_Witness ==
  /\ call.fn = "get_irf_endo_vars"
  /\ ExoList = << <<"e">>, <<"x", "_", "e">> >>
  /\ <<"a">> \in EndoKnown
  /\ <<"a", "_", "x">> \notin EndoKnown
  /\ ArrayFields(irfs) = {<<"a", "_", "x", "_", "e">>, <<"a", "_", "e">>}
  /\ ~Raised(ret)
  /\ DOMAIN ret.val.map = {<<"e">>}

\* C14: for every known variable v and known shock s, if the source holds
\* an array field named "<v>_<s>", get_irf returns a table for s whose
\* series for v is that field's vector.
C14_Complete ==
  call.fn = "get_irf" =>
    \A v \in EndoKnown : \A s \in SeqToSet(ExoList) :
      FieldName(v, s) \in ArrayFields(irfs) =>
        /\ ~Raised(ret)
        /\ s \in DOMAIN ret.val.map
        /\ v \in DOMAIN ret.val.map[s].data
        /\ ret.val.map[s].data[v] = irfs[FieldName(v, s)].data

\* C23: on every source where get_irf and get_irf_endo_vars both return, they
\* report the same shocks, and for each shock the columns of the table of
\* get_irf are exactly the variables get_irf_endo_vars lists for it.
C23_Agreement ==
  (call.fn = "get_irf" /\ ~Raised(ret)) =>
    \A listed \in {get_irf_endo_vars(irfs, M_)} :
      ~Raised(listed) =>
        /\ SeqToSet(ret.val.keys) = SeqToSet(listed.val.keys)
        /\ DOMAIN ret.val.map = DOMAIN listed.val.map
        /\ \A s \in DOMAIN ret.val.map :
             /\ SeqToSet(ret.val.map[s].columns) = SeqToSet(listed.val.map[s])
             /\ DOMAIN ret.val.map[s].data = SeqToSet(listed.val.map[s])

\* Both returned two shocks, one of them with two variables.
C23_Witness ==
  /\ call.fn = "get_irf"
  /\ ~Raised(ret)
  /\ Len(ret.val.keys) = 2
  /\ \E listed \in {get_irf_endo_vars(irfs, M_)} :
        /\ ~Raised(listed)
        /\ Len(listed.val.keys) = 2
        /\ \E s \in DOMAIN ret.val.map :
              /\ Len(listed.val.map[s]) = 2
              /\ ret.val.map[s].columns = listed.val.map[s]

(***************************************************************************)
(* Figures: the sources and the calls.                                     *)
(***************************************************************************)
Letters == <<"a", "b", "c", "d", "e", "f", "g", "h", "i", "j">>

\* The first n variables, the shock u, and their long names.
PlotNames(n) == [k \in 1..n |-> <<Letters[k]>>]

PlotShock == <<"u">>

PlotMeta(n) ==
  Meta(<<Attr(PlotNames(n)), Attr(LongFor(PlotNames(n), EndoLongRaw))>>,
       <<Attr(<<PlotShock>>), Attr(<< <<"L">> >>)>>)

\* The values of a response, in units of 1e-12: zero, noise of 1e-12, a value
\* of exactly 1e-10, a response of 1e-5, of either sign, and NaN.
PlotValues == {Num(0), Num(-1), Num(100), Num(-10000000), NaN}

PlotSource(vectors) ==
  [name \in {FieldName(PlotNames(Len(vectors))[k], PlotShock) : k \in 1..Len(vectors)} |->
     Arr(vectors[CHOOSE k \in 1..Len(vectors) :
                   name = FieldName(PlotNames(Len(vectors))[k], PlotShock)])]

\* One or two responses over a horizon of h periods: the first any vector of
\* the values, the second any constant vector.
FewResponses(h) ==
  {<<x>> : x \in [1..h -> PlotValues]}
    \cup {<<x, [i \in 1..h |-> c]>> : x \in [1..h -> PlotValues], c \in PlotValues}

\* n responses, no two the same.
ManyResponses(n) == [k \in 1..n |-> FieldVector(k)]

InitPlot ==
  /\ \E vectors \in UNION {FewResponses(h) : h \in 1..MaxHorizon}
                      \cup {ManyResponses(n) : n \in 1..MaxSeries} :
       /\ M_ = PlotMeta(Len(vectors))
       /\ irfs = PlotSource(vectors)
  /\ call = NoCall
  /\ ret = ReturnNone
  /\ prev = NoPrev
  /\ fig = ReturnNone
  /\ app = NoApp

\* The selections of columns: any of them in the order of the table, one or
\* two of the first two in any order, and a name that is no column.
PlotSelections(columns) ==
  Sublists(columns, Len(columns))
    \cup Arrangements(SubSeq(columns, 1, IF Len(columns) < 2 THEN Len(columns) ELSE 2), 2)
    \cup {<<Unknown>>}

\* plot_irf_df(shock_dfs[shock_name], endo_names, shock_name, n_cols=n_cols,
\* M_=M_ or None) on the tables that get_irf returned.
PlotIrfDf(shock_name, endo_names, n_cols, useM) ==
  /\ call.fn = "get_irf"
  /\ ~Raised(ret)
  /\ shock_name \in DOMAIN ret.val.map
  /\ call' = [fn |-> "plot_irf_df", shock_name |-> shock_name,
              endo_names |-> endo_names, n_cols |-> n_cols, useM |-> useM]
  /\ fig' = plot_irf_df(ret.val.map[shock_name], endo_names, shock_name, n_cols,
                        M_, useM, IrfThreshold)
  /\ UNCHANGED <<app, M_, irfs, ret, prev>>

NextPlot ==
  \/ Idle /\ GetIrf
  \/ \E shock_name \in {PlotShock}, n_cols \in 1..MaxCols, useM \in BOOLEAN :
       \E endo_names \in PlotSelections(PlotNames(Len(M_.endo_names.val))) :
         PlotIrfDf(shock_name, endo_names, n_cols, useM)

SpecPlot == InitPlot /\ [][NextPlot]_vars

(***************************************************************************)
(* Figures: the claims.                                                    *)
(***************************************************************************)
\* plot_irf_df returned a figure.
Drawn == call.fn = "plot_irf_df" /\ ~Raised(fig)

\* The table that was plotted, and the series of its i-th selected column.
PlottedTable == ret.val.map[call.shock_name]

Original(i) == PlottedTable.data[call.endo_names[i]]

\* The largest absolute value of a series (NaN values aside) is below x.
MaxAbsBelow(series, x) ==
  /\ \E i \in 1..Len(series) : ~series[i].nan
  /\ \A i \in 1..Len(series) : ~series[i].nan => (series[i].v < x /\ -series[i].v < x)

\* The largest absolute value of a series (NaN values aside) is x or more.
MaxAbsAtLeast(series, x) ==
  \E i \in 1..Len(series) : ~series[i].nan /\ (series[i].v >= x \/ -series[i].v >= x)

\* C9: for every plotted series, every value drawn is zero if its largest
\* absolute value is strictly below the threshold of 1e-10, and the values
\* drawn are the original ones if it is at or above the threshold.
C9_Thresholding ==
  Drawn =>
    \A i \in 1..Len(call.endo_names) :
      /\ MaxAbsBelow(Original(i), IrfThreshold) =>
           /\ Len(fig.val.axes[i].data) = Len(Original(i))
           /\ \A t \in 1..Len(Original(i)) : fig.val.axes[i].data[t] = Num(0)
      /\ MaxAbsAtLeast(Original(i), IrfThreshold) =>
           fig.val.axes[i].data = Original(i)

\* A series of noise (1e-12 at most) drawn as zeros beside a series that
\* reaches exactly 1e-10 and is drawn as it is.
C9_Witness ==
  /\ Drawn
  /\ Len(call.endo_names) = 2
  /\ MaxAbsBelow(Original(1), 2)
  /\ Original(1) # <<Num(0), Num(0)>>
  /\ fig.val.axes[1].data = <<Num(0), Num(0)>>
  /\ ~MaxAbsAtLeast(Original(2), IrfThreshold + 1)
  /\ MaxAbsAtLeast(Original(2), IrfThreshold)
  /\ fig.val.axes[2].data = Original(2)

Hidden == {j \in 1..Len(fig.val.axes) : ~fig.val.axes[j].visible}

\* C10: for seriesCount >= 1 and requestedColumns >= 1 the grid has
\* rows = ceil(seriesCount / requestedColumns) rows, each of the first
\* seriesCount cells renders one series, and exactly
\* rows * requestedColumns - seriesCount cells, the trailing ones, are hidden.
C10_Layout ==
  (Drawn /\ Len(call.endo_names) >= 1) =>
    LET n == Len(call.endo_names)
        c == call.n_cols
        rows == fig.val.n_rows
    IN  /\ rows * c >= n
        /\ (rows - 1) * c < n
        /\ Len(fig.val.axes) = rows * c
        /\ \A i \in 1..n :
             /\ fig.val.axes[i].visible
             /\ fig.val.axes[i].plotted
             /\ fig.val.axes[i].title =
                  IF call.useM THEN LongNames("endo")[Index(ShortNames("endo"), call.endo_names[i])]
                  ELSE call.endo_names[i]
        /\ Hidden = (n + 1)..(rows * c)
        /\ Cardinality(Hidden) = rows * c - n
        /\ \A j \in Hidden : ~fig.val.axes[j].plotted

\* 7 series in 3 columns: 3 rows and 2 hidden cells.
C10_Witness ==
  /\ Drawn
  /\ Len(call.endo_names) = 7
  /\ call.n_cols = 3
  /\ fig.val.n_rows = 3
  /\ Hidden = {8, 9}

(***************************************************************************)
(* The correction of a long name in the sample source: fix_dynare_typo.    *)
(***************************************************************************)
\* target = "monetary policy shock"
target ==
  <<"m", "o", "n", "e", "t", "a", "r", "y", " ", "p", "o", "l", "i", "c", "y",
    " ", "s", "h", "o", "c", "k">>

\* replacement = "cost push shock"
replacement ==
  <<"c", "o", "s", "t", " ", "p", "u", "s", "h", " ", "s", "h", "o", "c", "k">>

\* Mutant of fix_dynare_typo: the two names are exchanged.
fix_dynare_typo_exchange(M) ==
  IF ~M.exo_names_long.has THEN Raise("AttributeError", "exo_names_long")
  ELSE Return([M EXCEPT !.exo_names_long =
                 Attr([i \in 1..Len(M.exo_names_long.val) |->
                         IF M.exo_names_long.val[i] = target THEN replacement
                         ELSE IF M.exo_names_long.val[i] = replacement THEN target
                         ELSE M.exo_names_long.val[i]])])

\* fix_dynare_typo(M_): the names are compared as loaded, not stripped; the
\* other attributes of M_ are not assigned.
fix_dynare_typo(M) ==
  IF ~M.exo_names_long.has THEN Raise("AttributeError", "exo_names_long")
  ELSE Return([M EXCEPT !.exo_names_long =
                 Attr([i \in 1..Len(M.exo_names_long.val) |->
                         IF M.exo_names_long.val[i] = target THEN replacement
                         ELSE M.exo_names_long.val[i]])])

\* The long names a shock of the source may carry: the name to correct, as
\* it is and padded, the corrected name, and another name.
TypoLongRaw == <<target, target \o <<" ">>, replacement, <<"L">>>>

InitTypo ==
  /\ M_ \in {Meta(<<Attr(<< <<"a">> >>), Attr(<< <<"A">> >>)>>, exo) :
               exo \in AlignedPairs(Sublists(ExoShortRaw, MaxNames), TypoLongRaw)
                         \cup {<<Attr(sh), NoAttr>> : sh \in Sublists(ExoShortRaw, MaxNames)}}
  /\ irfs = SampleFields
  /\ call = NoCall
  /\ ret = ReturnNone
  /\ prev = NoPrev
  /\ fig = NoFig
  /\ app = NoApp

\* M_ = fix_dynare_typo(M_), on the loaded metadata and once more on the
\* corrected metadata; n counts the applications.
FixDynareTypo ==
  /\ call.fn = "load" \/ (call.fn = "fix_dynare_typo" /\ call.n = 1)
  /\ call' = [fn |-> "fix_dynare_typo", n |-> IF call.fn = "load" THEN 1 ELSE 2]
  /\ ret' = fix_dynare_typo(M_)
  /\ M_' = IF Raised(ret') THEN M_ ELSE ret'.val
  /\ prev' = [kind |-> "M_", M_ |-> M_]
  /\ UNCHANGED <<app, irfs, fig>>

NextTypo == FixDynareTypo

SpecTypo == InitTypo /\ [][NextTypo]_vars

\* C11: the correction is idempotent and a no-op when the old long name is
\* absent: a second application leaves the metadata, and the name lists read
\* from it, as the first left them; an application to metadata none of whose
\* long shock names is the old name leaves every attribute, and every short
\* and long name read from it, unchanged.
C11_Idempotent ==
  (call.fn = "fix_dynare_typo" /\ ~Raised(ret)) =>
    /\ call.n = 2 =>
         /\ M_ = prev.M_
         /\ get_exo_names_all(M_) = get_exo_names_all(prev.M_)
         /\ get_endo_names_all(M_) = get_endo_names_all(prev.M_)
    /\ ~In(target, prev.M_.exo_names_long.val) =>
         /\ M_ = prev.M_
         /\ get_exo_names_all(M_) = get_exo_names_all(prev.M_)
         /\ get_endo_names_all(M_) = get_endo_names_all(prev.M_)

\* The second application to a source whose second shock carried the old
\* name: the first application corrected it, the second changes nothing.
C11_Witness ==
  /\ call.fn = "fix_dynare_typo"
  /\ call.n = 2
  /\ ~Raised(ret)
  /\ M_.exo_names_long.val = <<<<"L">>, replacement>>
  /\ M_.exo_names = prev.M_.exo_names

(***************************************************************************)
(* The Streamlit script app.py.  A run of the script reads the loaded      *)
(* sources M_list and oo_list, offers the variables and the shocks common  *)
(* to all sources, and draws the selected variables' responses to the      *)
(* selected shock, one panel per variable and one line per source.         *)
(***************************************************************************)
\* plot_threshold = 1e-10, in units of 1e-12
plot_threshold == 100

\* max_value of the n_col widget
n_col_max_value == 5

\* The value a local variable holds: the right-hand side of its assignment is
\* evaluated once, S is the set of that one value.
Only(S) == CHOOSE x \in S : TRUE

\* sorted(names) of a list: duplicates are kept.
RECURSIVE sorted_list(_)
sorted_list(names) ==
  IF names = <<>> THEN <<>>
  ELSE LET i == CHOOSE k \in 1..Len(names) : \A j \in 1..Len(names) : StrLeq(names[k], names[j])
       IN  <<names[i]>> \o sorted_list(SubSeq(names, 1, i - 1) \o SubSeq(names, i + 1, Len(names)))

\* The position of the first call of a list that raised, 0 when none did.
FirstRaised(results) ==
  IF \E i \in 1..Len(results) : Raised(results[i])
  THEN CHOOSE i \in 1..Len(results) :
         Raised(results[i]) /\ \A j \in 1..(i - 1) : ~Raised(results[j])
  ELSE 0

\* The values of a list of calls that returned.
Values(results) == [i \in 1..Len(results) |-> results[i].val]

\* get_endo_names_long(oo_, M_): the long names of the variables listed
\* under the first shock of get_irf_endo_vars.
get_endo_names_long(fields, M) ==
  Only({IF Raised(endo_vars_shocks) THEN endo_vars_shocks
        ELSE Only({IF FirstRaised(longs) # 0 THEN longs[FirstRaised(longs)]
                   ELSE Return(sorted_list(Values(longs))) :
                   longs \in {[i \in 1..Len(endo_vars_shocks.val.map[endo_vars_shocks.val.keys[1]]) |->
                                 convert(endo_vars_shocks.val.map[endo_vars_shocks.val.keys[1]][i],
                                         M, "endo", "long")]}}) :
        endo_vars_shocks \in {get_irf_endo_vars(fields, M)}})

\* convert_selected_endo_names(selected_endo_names_long, M_)
convert_selected_endo_names(selected_endo_names_long, M) ==
  LET shorts == [i \in 1..Len(selected_endo_names_long) |->
                   convert(selected_endo_names_long[i], M, "endo", "short")]
  IN  IF FirstRaised(shorts) # 0 THEN shorts[FirstRaised(shorts)]
      ELSE Return(Values(shorts))

\* sorted(set.intersection(*sets)) of the sets of a list of lists.
SortedIntersection(lists) ==
  Sorted({x \in SeqToSet(lists[1]) : \A i \in 1..Len(lists) : x \in SeqToSet(lists[i])})

\* The run before the script has read the sources: nothing selected, drawn,
\* shown or exported.
AppLoaded(M_list, oo_list) ==
  [stage |-> "loaded", exc |-> ReturnNone, M_list |-> M_list, oo_list |-> oo_list,
   common_endo_names_long |-> <<>>, selected_endo_names_long |-> <<>>,
   selected_endo_names_short_list |-> <<>>, shock_dfs_list |-> <<>>,
   common_shocks |-> <<>>, long_shock_list |-> <<>>, w |-> <<>>, shock_name |-> <<>>,
   fig |-> ReturnNone, screen |-> ReturnNone, export |-> ReturnNone]

\* The run ends at the statement that raised.
AppError(a, exc) == [a EXCEPT !.stage = "error", !.exc = exc]

\* endo_names_long_sets, as the lists get_endo_names_long returned.
EndoNamesLongLists(M_list, oo_list) ==
  [i \in 1..Len(M_list) |-> get_endo_names_long(oo_list[i], M_list[i])]

\* The options of the multiselect: common_endo_names_long, empty when a
\* source raised before the widget was reached.
Offered(M_list, oo_list) ==
  Only({IF FirstRaised(names) # 0 THEN <<>> ELSE SortedIntersection(Values(names)) :
        names \in {EndoNamesLongLists(M_list, oo_list)}})

\* The script from the load of the sources to the list of the common shocks,
\* with the variables the user selected in the multiselect.
Select(selected_endo_names_long) ==
  /\ app.stage = "loaded"
  /\ \E names \in {EndoNamesLongLists(app.M_list, app.oo_list)} :
       IF FirstRaised(names) # 0 THEN app' = AppError(app, names[FirstRaised(names)])
       ELSE \E common_endo_names_long \in {SortedIntersection(Values(names))} :
         IF selected_endo_names_long = <<>>
         THEN app' = [app EXCEPT !.stage = "warning",
                                 !.common_endo_names_long = common_endo_names_long]
         ELSE \E shorts \in {[i \in 1..Len(app.M_list) |->
                                convert_selected_endo_names(selected_endo_names_long,
                                                            app.M_list[i])]} :
           IF FirstRaised(shorts) # 0 THEN app' = AppError(app, shorts[FirstRaised(shorts)])
           ELSE \E dfs \in {[i \in 1..Len(app.M_list) |->
                                get_irf(app.oo_list[i], app.M_list[i])]} :
             IF FirstRaised(dfs) # 0 THEN app' = AppError(app, dfs[FirstRaised(dfs)])
             ELSE \E common_shocks \in
                       {SortedIntersection([i \in 1..Len(dfs) |-> dfs[i].val.keys])} :
               \E longs \in {[k \in 1..Len(common_shocks) |->
                                convert(common_shocks[k], app.M_list[1], "exo", "long")]} :
                 app' =
                   IF FirstRaised(longs) # 0 THEN AppError(app, longs[FirstRaised(longs)])
                   ELSE [app EXCEPT !.stage = "selected",
                                    !.common_endo_names_long = common_endo_names_long,
                                    !.selected_endo_names_long = selected_endo_names_long,
                                    !.selected_endo_names_short_list = Values(shorts),
                                    !.shock_dfs_list = Values(dfs),
                                    !.common_shocks = common_shocks,
                                    !.long_shock_list = Values(longs)]
  /\ UNCHANGED <<M_, irfs, call, ret, prev, fig>>

\* A Python value of the axes grid: an Axes, a numpy array or a list.
AxesObj(k) == [kind |-> "Axes", id |-> k, items |-> <<>>]

NdArray(items) == [kind |-> "ndarray", id |-> 0, items |-> items]

List(items) == [kind |-> "list", id |-> 0, items |-> items]

\* plt.subplots(n_rows, n_col) squeezes its result: one Axes for a 1 x 1
\* grid, a 1-D array for one row or one column, a 2-D array otherwise.  The
\* Axes are numbered row by row.
subplots(n_rows, n_col) ==
  IF n_rows = 1 /\ n_col = 1 THEN AxesObj(1)
  ELSE IF n_rows = 1 \/ n_col = 1
  THEN NdArray([k \in 1..(n_rows * n_col) |-> AxesObj(k)])
  ELSE NdArray([r \in 1..n_rows |->
                  NdArray([c \in 1..n_col |-> AxesObj((r - 1) * n_col + c)])])

\* The if/elif chain that nests axes for axes[row][col].
NestedAxes(axes, n_vars, n_rows, n_col) ==
  IF n_vars = 1 THEN List(<<List(<<axes>>)>>)
  ELSE IF n_rows = 1 THEN List(<<axes>>)
  ELSE IF n_col = 1 THEN List([r \in 1..Len(axes.items) |-> List(<<axes.items[r]>>)])
  ELSE axes

\* x[i], i counted from 0.
GetItem(x, i) ==
  IF x.kind = "Axes" THEN Raise("TypeError", "not subscriptable")
  ELSE IF i >= Len(x.items) THEN Raise("IndexError", "axes")
  ELSE Return(x.items[i + 1])

\* axes[idx // n_col][idx % n_col]
Cell(axes, idx, n_col) ==
  Only({IF Raised(row) THEN row ELSE GetItem(row.val, idx % n_col) :
        row \in {GetItem(axes, idx \div n_col)}})

\* ax.plot, ax.legend, ax.axis on what the grid holds at idx: an array has
\* no such attribute.
AxesAt(axes, idx, n_col) ==
  Only({IF Raised(ax) THEN ax
        ELSE IF ax.val.kind # "Axes" THEN Raise("AttributeError", "ndarray")
        ELSE ax :
        ax \in {Cell(axes, idx, n_col)}})

\* The thresholding loop on one table: every column whose largest absolute
\* value over all its periods is below plot_threshold is assigned zeros, in
\* the table itself.
ThresholdedTable(df) ==
  [df EXCEPT !.data = [col \in DOMAIN df.data |-> Thresholded(df.data[col], plot_threshold)]]

\* df[:periods]
Periods(series, periods) ==
  SubSeq(series, 1, IF periods < Len(series) THEN periods ELSE Len(series))

\* Mutant of LegendShown: the mode is not looked at.
LegendShown_anymode(show_legend, legend_panel_mode, idx_var) == show_legend

\* The label of a line and the call of ax.legend() are under one condition.
LegendShown(show_legend, legend_panel_mode, idx_var) ==
  show_legend /\ (legend_panel_mode = 0 \/ (legend_panel_mode = 1 /\ idx_var = 0))

\* The elements of a set of numbers in ascending order.
RECURSIVE Ascend(_)
Ascend(S) ==
  IF S = {} THEN <<>>
  ELSE LET m == CHOOSE x \in S : \A y \in S : x <= y
       IN  <<m>> \o Ascend(S \ {m})

\* A line of a panel: the values drawn, and the source whose legend label it
\* carries (label none for label=None).
Line(data, labelled, src) ==
  [data |-> data, label |-> [none |-> ~labelled, src |-> IF labelled THEN src ELSE 0]]

NoTitle == [none |-> TRUE, name |-> <<>>]

Title(name) == [none |-> FALSE, name |-> name]

\* remove_suptitle(fig): fig.suptitle(None) leaves an empty title on the
\* figure it is given, which is the figure it returns.
remove_suptitle(figure) == [figure EXCEPT !.suptitle = NoTitle]

\* The tables of the selected shock after the thresholding loop; the other
\* tables are not touched.
ThresholdedDfs(shock_dfs, shock_name) ==
  [shock_dfs EXCEPT !.map = [s \in DOMAIN shock_dfs.map |->
                               IF s = shock_name THEN ThresholdedTable(shock_dfs.map[s])
                               ELSE shock_dfs.map[s]]]

\* The first statement of the drawing loop and of the hiding loop that
\* raises, as a raised result; a normal return when none does.  idx_var and
\* idx count from 0 as in the script.
DrawingError(a, w, shock_name, n_vars, n_rows, axes) ==
  LET plotError(idx_var) ==
        IF Raised(AxesAt(axes, idx_var, w.n_col)) THEN AxesAt(axes, idx_var, w.n_col)
        ELSE IF \E k \in 1..Len(a.shock_dfs_list) :
                  ~In(a.selected_endo_names_short_list[k][idx_var + 1],
                      a.shock_dfs_list[k].map[shock_name].columns)
        THEN Raise("KeyError", "irfs[var_short]")
        ELSE ReturnNone
      hideError(idx) ==
        IF Raised(AxesAt(axes, idx, w.n_col)) THEN AxesAt(axes, idx, w.n_col)
        ELSE ReturnNone
      failedPlots == {i \in 0..(n_vars - 1) : Raised(plotError(i))}
      failedHides == {i \in n_vars..(n_rows * w.n_col - 1) : Raised(hideError(i))}
  IN  IF failedPlots # {} THEN plotError(Ascend(failedPlots)[1])
      ELSE IF failedHides # {} THEN hideError(Ascend(failedHides)[1])
      ELSE ReturnNone

\* The Axes numbered k after the drawing loop and the hiding loop: for each
\* variable drawn on it one line per source, the title set last, whether
\* ax.legend() was called on it, and whether it is still shown.
Panel(a, w, shock_name, n_vars, n_rows, axes, dfs, k) ==
  LET here == Ascend({i \in 0..(n_vars - 1) : AxesAt(axes, i, w.n_col).val.id = k})
      off == \E i \in n_vars..(n_rows * w.n_col - 1) : AxesAt(axes, i, w.n_col).val.id = k
  IN  [visible |-> ~off,
       plots |-> [j \in 1..Len(here) |->
                    [idx_var |-> here[j],
                     lines |-> [src \in 1..Len(dfs) |->
                                  Line(Periods(dfs[src].map[shock_name].data[
                                                 a.selected_endo_names_short_list[src][here[j] + 1]],
                                               w.periods),
                                       LegendShown(w.show_legend, w.legend_panel_mode, here[j]),
                                       src)]]],
       title |-> IF here = <<>> THEN NoTitle
                 ELSE Title(a.selected_endo_names_long[here[Len(here)] + 1]),
       legend |-> \E j \in 1..Len(here) :
                    LegendShown(w.show_legend, w.legend_panel_mode, here[j])]

\* The values of the widgets of a run.  A selectbox without options returns
\* None, written as the empty name; the number of periods is between 1 and
\* the horizon of the sources.
AppWidgets(a) ==
  [selected_shock_long : IF a.long_shock_list = <<>> THEN {<<>>}
                         ELSE SeqToSet(a.long_shock_list),
   n_col : 1..n_col_max_value,
   periods : 1..MaxHorizon,
   show_legend : BOOLEAN,
   legend_panel_mode : {0, 1},
   include_title : BOOLEAN]

\* The script from the selectbox of the shock to the download button, with
\* the values w of the widgets: the default of the periods widget, the
\* thresholding loop, the figure, its display and its export.
Draw(w) ==
  /\ app.stage = "selected"
  /\ IF app.common_shocks = <<>>
     THEN app' = AppError([app EXCEPT !.w = w], Raise("IndexError", "common_shocks[0]"))
     ELSE IF w.selected_shock_long = <<>>
     THEN app' = [app EXCEPT !.stage = "warning", !.w = w]
     ELSE \E shock \in {convert(w.selected_shock_long, app.M_list[1], "exo", "short")} :
       IF Raised(shock) THEN app' = AppError([app EXCEPT !.w = w], shock)
       ELSE \E shock_name \in {shock.val} :
         \E dfs \in {[i \in 1..Len(app.shock_dfs_list) |->
                        ThresholdedDfs(app.shock_dfs_list[i], shock_name)]} :
           IF \E i \in 1..Len(app.shock_dfs_list) :
                shock_name \notin DOMAIN app.shock_dfs_list[i].map
           THEN app' =
                  AppError([app EXCEPT !.w = w, !.shock_name = shock_name,
                                       !.shock_dfs_list = [i \in 1..Len(dfs) |->
                                          IF \A j \in 1..i : shock_name \in DOMAIN dfs[j].map
                                          THEN dfs[i] ELSE app.shock_dfs_list[i]]],
                           Raise("KeyError", "irf_dfs[shock_name]"))
           ELSE \E n_vars \in {Len(app.selected_endo_names_long)} :
             \E n_rows \in {n_rows_of(n_vars, w.n_col)} :
               \E axes \in {NestedAxes(subplots(n_rows, w.n_col), n_vars, n_rows, w.n_col)} :
                 \E failed \in {DrawingError(app, w, shock_name, n_vars, n_rows, axes)} :
                   IF Raised(failed)
                   THEN app' = AppError([app EXCEPT !.w = w, !.shock_name = shock_name,
                                                    !.shock_dfs_list = dfs], failed)
                   ELSE \E drawn \in
                          {[n_rows |-> n_rows, n_cols |-> w.n_col,
                            axes |-> [k \in 1..(n_rows * w.n_col) |->
                                        Panel(app, w, shock_name, n_vars, n_rows, axes, dfs, k)],
                            suptitle |-> IF w.include_title THEN Title(w.selected_shock_long)
                                         ELSE NoTitle]} :
                     \E fig_for_save \in
                          {IF w.include_title THEN drawn ELSE remove_suptitle(drawn)} :
                       app' = [app EXCEPT !.stage = "drawn", !.w = w,
                                          !.shock_name = shock_name,
                                          !.shock_dfs_list = dfs,
                                          !.fig = Return(fig_for_save),
                                          !.screen = Return(drawn),
                                          !.export = Return(fig_for_save)]
  /\ UNCHANGED <<M_, irfs, call, ret, prev, fig>>

\* plot_and_download_irf(irf_data_list, var_names, shock_names, style_options,
\* ..., save_options) on the table of one shock of the first source, with
\* style_options["n_col"] = n_col, style_options["M_"] the metadata of the
\* source and save_options["fig_title"] = fig_title.
PlotAndDownloadIrf(shock_names, n_col, fig_title) ==
  /\ app.stage = "selected"
  /\ shock_names \in DOMAIN app.shock_dfs_list[1].map
  /\ \E drawn \in {plot_irf_df(app.shock_dfs_list[1].map[shock_names],
                                app.selected_endo_names_short_list[1], shock_names,
                                n_col, app.M_list[1], TRUE, plot_threshold)} :
       LET fig_for_save == IF fig_title THEN drawn.val ELSE remove_suptitle(drawn.val)
           save_options == [selected_shock_long |-> shock_names, n_col |-> n_col,
                            periods |-> 0, show_legend |-> FALSE, legend_panel_mode |-> 0,
                            include_title |-> fig_title]
       IN  app' =
             IF Raised(drawn) THEN AppError([app EXCEPT !.w = save_options], drawn)
             ELSE [app EXCEPT !.stage = "downloaded", !.w = save_options,
                              !.shock_name = shock_names,
                              !.fig = Return(fig_for_save),
                              !.screen = drawn,
                              !.export = Return(fig_for_save)]
  /\ UNCHANGED <<M_, irfs, call, ret, prev, fig>>

(***************************************************************************)
(* The script: the sources and the runs.                                   *)
(***************************************************************************)
MaxSources == 2

\* The values of a response, in units of 1e-12: zero, noise of 1e-12 and a
\* response of 1e-5.
AppValues == {Num(0), Num(1), Num(-10000000)}

\* One response of h periods, any vector of the values, alone or beside a
\* second response that is 1e-10 throughout.
AppResponses(h) ==
  {<<x>> : x \in [1..h -> AppValues]}
    \cup {<<x, [i \in 1..h |-> Num(100)]>> : x \in [1..h -> AppValues]}

\* The k-th response of a source of responses well above the threshold.
AppVector(k) == <<Num(1000 * k), Num(1000 * k + 500)>>

\* n variables whose long names are their short names, and the shock u.
GridMeta(n) ==
  Meta(<<Attr(PlotNames(n)), Attr(PlotNames(n))>>,
       <<Attr(<<PlotShock>>), Attr(<< <<"L">> >>)>>)

\* Variables a, b and shocks e, u; the long name of e is its short name.
MultiMeta ==
  Meta(<<Attr(<< <<"a">>, <<"b">> >>), Attr(<< <<"A">>, <<"B">> >>)>>,
       <<Attr(<< <<"e">>, <<"u">> >>), Attr(<< <<"e", " ">>, <<"L">> >>)>>)

\* The fields a source may hold: every pair of a variable and a shock.
MultiFieldPool ==
  <<FieldName(<<"a">>, <<"e">>), FieldName(<<"b">>, <<"e">>),
    FieldName(<<"a">>, <<"u">>), FieldName(<<"b">>, <<"u">>)>>

\* The fields of three sources: all four, all but b_u, and those of u only.
MultiFieldNames ==
  <<SeqToSet(MultiFieldPool), SeqToSet(SubSeq(MultiFieldPool, 1, 3)),
    SeqToSet(SubSeq(MultiFieldPool, 3, 4))>>

\* The k-th of these sources: no two fields hold the same response.
MultiFields(k) ==
  [name \in MultiFieldNames[k] |-> Arr(AppVector(10 * k + Index(MultiFieldPool, name)))]

\* The lists of at most n sources drawn from 1..Len(MultiFieldNames).
RECURSIVE SourceLists(_)
SourceLists(n) ==
  IF n = 0 THEN {<<>>}
  ELSE SourceLists(n - 1) \cup
       {Append(l, k) : l \in {m \in SourceLists(n - 1) : Len(m) = n - 1},
                       k \in 1..Len(MultiFieldNames)}

InitApp ==
  /\ \/ \E vectors \in UNION {AppResponses(h) : h \in 1..MaxHorizon} :
          app = AppLoaded(<<PlotMeta(Len(vectors))>>, <<PlotSource(vectors)>>)
     \/ \E n \in 1..MaxSeries :
          app = AppLoaded(<<GridMeta(n)>>,
                          <<PlotSource([k \in 1..n |-> AppVector(k)])>>)
     \/ \E l \in SourceLists(MaxSources) \ {<<>>} :
          app = AppLoaded([i \in 1..Len(l) |-> MultiMeta],
                          [i \in 1..Len(l) |-> MultiFields(l[i])])
  /\ M_ = app.M_list[1]
  /\ irfs = app.oo_list[1]
  /\ call = NoCall
  /\ ret = ReturnNone
  /\ prev = NoPrev
  /\ fig = NoFig

\* The selections of the multiselect: none, one or two of the first two
\* options in the order they were selected, and the first k options.
AppSelections(options) ==
  Arrangements(SubSeq(options, 1, IF Len(options) < 2 THEN Len(options) ELSE 2), 2)
    \cup {SubSeq(options, 1, k) : k \in 1..Len(options)}

NextApp ==
  \/ /\ app.stage = "loaded"
     /\ \E selected_endo_names_long \in AppSelections(Offered(app.M_list, app.oo_list)) :
          Select(selected_endo_names_long)
  \/ /\ app.stage = "selected"
     /\ \E w \in AppWidgets(app) : Draw(w)
  \/ /\ app.stage = "selected"
     /\ \E shock_names \in SeqToSet(app.common_shocks), n_col \in 1..n_col_max_value,
           fig_title \in BOOLEAN :
          PlotAndDownloadIrf(shock_names, n_col, fig_title)

SpecApp == InitApp /\ [][NextApp]_vars

(***************************************************************************)
(* The script: the claims.                                                 *)
(***************************************************************************)
\* The script drew the figure, showed it and prepared its export.
AppDrawn == app.stage = "drawn"

\* plot_and_download_irf did so.
AppDownloaded == app.stage = "downloaded"

\* The panels of the figure as shown.
ShownAxes == app.screen.val.axes

\* The series of the variable idx_var (counted from 0) in the table that
\* get_irf returned for the source src and the selected shock.
Extracted(src, idx_var) ==
  get_irf(app.oo_list[src], app.M_list[src]).val.map[app.shock_name].data[
    app.selected_endo_names_short_list[src][idx_var + 1]]

AllZeros(series) == \A t \in 1..Len(series) : series[t] = Num(0)

\* C15: for every series drawn and every number of periods P, if the largest
\* absolute value over the first P periods is below 1e-10, the series is
\* drawn as zeros, whatever its values after period P.
C15_RenderedHorizon ==
  AppDrawn =>
    \A k \in 1..Len(ShownAxes) : \A j \in 1..Len(ShownAxes[k].plots) :
      \A src \in 1..Len(ShownAxes[k].plots[j].lines) :
        MaxAbsBelow(Periods(Extracted(src, ShownAxes[k].plots[j].idx_var), app.w.periods),
                    plot_threshold)
          => AllZeros(ShownAxes[k].plots[j].lines[src].data)

\* C16: after a figure was composed, by the script or by
\* plot_and_download_irf, every table of every source holds the values that
\* get_irf returned.
C16_TablesUnchanged ==
  (AppDrawn \/ AppDownloaded) =>
    \A src \in 1..Len(app.shock_dfs_list) :
      app.shock_dfs_list[src] = get_irf(app.oo_list[src], app.M_list[src]).val

\* A line carries the legend label of its source.
Labelled(plot) ==
  \A src \in 1..Len(plot.lines) :
    ~plot.lines[src].label.none /\ plot.lines[src].label.src = src

Unlabelled(plot) == \A src \in 1..Len(plot.lines) : plot.lines[src].label.none

\* C17: with the legend shown, in mode 0 every panel of a variable has a
\* legend and labelled lines, in mode 1 the panel of the first selected
\* variable has them and no other panel has; with the legend off no panel
\* has a legend or a labelled line; a panel without a variable has none.
C17_Legend ==
  AppDrawn =>
    /\ \A idx_var \in 0..(Len(app.selected_endo_names_long) - 1) :
         \E k \in 1..Len(ShownAxes) :
           /\ Len(ShownAxes[k].plots) = 1
           /\ ShownAxes[k].plots[1].idx_var = idx_var
           /\ Len(ShownAxes[k].plots[1].lines) = Len(app.oo_list)
    /\ \A k \in 1..Len(ShownAxes) :
         IF ShownAxes[k].plots = <<>> THEN ~ShownAxes[k].legend
         ELSE \A j \in 1..Len(ShownAxes[k].plots) :
                IF app.w.show_legend
                     /\ (app.w.legend_panel_mode = 0 \/ ShownAxes[k].plots[j].idx_var = 0)
                THEN ShownAxes[k].legend /\ Labelled(ShownAxes[k].plots[j])
                ELSE ~ShownAxes[k].legend /\ Unlabelled(ShownAxes[k].plots[j])

\* Two sources, two variables in two columns, first-panel-only mode: the
\* first panel has the legend and the labels of both sources, the second no
\* legend and no label.
C17_Witness ==
  /\ AppDrawn
  /\ Len(app.oo_list) = 2
  /\ Len(app.selected_endo_names_long) = 2
  /\ app.w.n_col = 2
  /\ app.w.show_legend
  /\ app.w.legend_panel_mode = 1
  /\ ShownAxes[1].legend
  /\ Labelled(ShownAxes[1].plots[1])
  /\ ~ShownAxes[2].legend
  /\ Unlabelled(ShownAxes[2].plots[1])

\* The long name of the shock of the figure.
ShockLongName ==
  IF AppDrawn THEN app.w.selected_shock_long
  ELSE convert(app.shock_name, app.M_list[1], "exo", "long").val

\* C18: when the title is not to be included in the exported file, the
\* figure shown carries the long name of the shock as its title and the
\* exported one carries none; when it is to be included, both carry it.
C18_Titles ==
  (AppDrawn \/ AppDownloaded) =>
    /\ app.screen.val.suptitle = Title(ShockLongName)
    /\ app.export.val.suptitle =
         IF app.w.include_title THEN Title(ShockLongName) ELSE NoTitle

\* The run reached plt.subplots.
Figured ==
  \/ AppDrawn
  \/ /\ app.stage = "error"
     /\ app.exc.msg \in {"ndarray", "axes", "not subscriptable", "irfs[var_short]"}

\* C19: for n >= 1 selected variables and c columns, 1 <= c <= 5, with
\* rows = ceil(n / c): each i < n addresses an existing single panel, the one
\* at (i // c, i % c), distinct variables distinct panels, and each index
\* from n to rows * c - 1 an existing panel that is switched off.
C19_Grid ==
  Figured =>
    /\ app.exc.msg \notin {"ndarray", "axes", "not subscriptable"}
    /\ AppDrawn =>
         LET n == Len(app.selected_endo_names_long)
             c == app.w.n_col
             rows == app.screen.val.n_rows
         IN  /\ rows * c >= n
             /\ (rows - 1) * c < n
             /\ Len(ShownAxes) = rows * c
             /\ \A i \in 0..(n - 1) :
                  /\ ShownAxes[(i \div c) * c + (i % c) + 1].visible
                  /\ Len(ShownAxes[(i \div c) * c + (i % c) + 1].plots) = 1
                  /\ ShownAxes[(i \div c) * c + (i % c) + 1].plots[1].idx_var = i
             /\ \A i \in n..(rows * c - 1) :
                  /\ ~ShownAxes[(i \div c) * c + (i % c) + 1].visible
                  /\ ShownAxes[(i \div c) * c + (i % c) + 1].plots = <<>>

\* C20: every variable offered has, in every source and for every shock
\* common to the sources, its series in the table of that shock; the drawing
\* loop looks up no missing series.
C20_OfferedHaveData ==
  Len(app.oo_list) >= 2 =>
    /\ \A src \in 1..Len(app.shock_dfs_list) :
         \A long_name \in SeqToSet(app.common_endo_names_long) :
           \A shock \in SeqToSet(app.common_shocks) :
             /\ ~Raised(convert(long_name, app.M_list[src], "endo", "short"))
             /\ In(convert(long_name, app.M_list[src], "endo", "short").val,
                   app.shock_dfs_list[src].map[shock].columns)
    /\ ~(app.stage = "error" /\ app.exc.msg = "irfs[var_short]")

(***************************************************************************)
(* The script: saving and loading the plot options.  A run evaluates its   *)
(* widgets, then loads the uploaded options document into the session      *)
(* state, then builds the document it offers for download.                 *)
(***************************************************************************)
\* Python values: an int, a bool (an int as well) and a str; v numbers the
\* strings.
PyInt(n) == [t |-> "int", v |-> n]

PyBool(b) == [t |-> "bool", v |-> IF b THEN 1 ELSE 0]

PyStr(k) == [t |-> "str", v |-> k]

save_vars ==
  <<"n_col", "plot_xlabel", "plot_ylabel", "periods", "file_plot_options",
    "show_legend", "legend_panel_mode", "show_grid", "fig_width", "fig_height">>

\* The names the save loop passes over.
SaveExcluded ==
  {"endo_names_long", "shock_names", "common_endo_names_long", "common_shocks",
   "long_shock_list", "selected_endo_names_long", "selected_shock_long"}

\* The keys the load loop passes over.
LoadSkipped == {"endo_names_long", "shock_names"}

\* legend_mode of the load: the document's legend_panel_mode, 0 when it is
\* absent, not an int or not in (0, 1).  True is an int and equals 1.
LoadedLegendMode(loaded) ==
  IF "legend_panel_mode" \notin DOMAIN loaded THEN PyInt(0)
  ELSE IF loaded["legend_panel_mode"].t \notin {"int", "bool"} THEN PyInt(0)
  ELSE IF loaded["legend_panel_mode"].v \notin {0, 1} THEN PyInt(0)
  ELSE loaded["legend_panel_mode"]

\* The session state after the for loop over loaded.items().
LoadedItems(session_state, loaded) ==
  [k \in DOMAIN session_state \cup (DOMAIN loaded \ LoadSkipped) |->
     IF k \in DOMAIN loaded \ LoadSkipped
     THEN IF k = "legend_panel_mode" THEN LoadedLegendMode(loaded) ELSE loaded[k]
     ELSE session_state[k]]

\* session_state with session_state[k] = v
SetItem(session_state, k, v) ==
  [x \in DOMAIN session_state \cup {k} |-> IF x = k THEN v ELSE session_state[x]]

\* plot_options after the save loop: a dict in the order of save_vars.
SavedOptions(locals) ==
  LET kept == SelectSeq(save_vars,
                        LAMBDA var : /\ var \notin SaveExcluded
                                     /\ (var = "legend_panel_mode" \/ var \in DOMAIN locals))
  IN  Dict(kept,
           [var \in SeqToSet(kept) |->
              IF var = "legend_panel_mode"
              THEN PyInt(IF locals[var].t \in {"int", "bool"} /\ locals[var].v = 0
                         THEN 0 ELSE 1)
              ELSE locals[var]])

MaxKeys == 2

MaxRuns == 2

\* The keys and the values an uploaded options document may hold.
DocKeys ==
  {"n_col", "legend_panel_mode", "endo_names_long", "shock_names",
   "selected_endo_names_long", "selected_shock_long"}

DocValues == {PyInt(0), PyInt(2), PyBool(TRUE), PyStr(4)}

\* The mappings yaml.safe_load may return: at most MaxKeys keys.
OptionDocs ==
  UNION {[keys -> DocValues] :
           keys \in {K \in SUBSET DocKeys : Cardinality(K) <= MaxKeys}}

NoDoc == [k \in {} |-> PyInt(0)]

\* What the file uploader holds: no file, a file that is not YAML, a YAML
\* file that holds no mapping (an empty file loads as None), or a mapping.
Uploads ==
  {[kind |-> k, doc |-> NoDoc] : k \in {"none", "invalid", "other"}}
    \cup {[kind |-> "mapping", doc |-> d] : d \in OptionDocs}

\* The variables of the run when the save loop is reached, with the values
\* of the widgets n_col and legend_panel_mode.
Locals(n_col, legend_panel_mode) ==
  ("n_col" :> PyInt(n_col)) @@ ("plot_xlabel" :> PyStr(1)) @@ ("plot_ylabel" :> PyStr(2))
    @@ ("periods" :> PyInt(MaxHorizon)) @@ ("file_plot_options" :> PyStr(3))
    @@ ("show_legend" :> PyBool(TRUE)) @@ ("legend_panel_mode" :> PyInt(legend_panel_mode))
    @@ ("show_grid" :> PyBool(FALSE)) @@ ("fig_width" :> PyInt(5 * n_col))
    @@ ("fig_height" :> PyInt(3)) @@ ("selected_endo_names_long" :> PyStr(5))
    @@ ("selected_shock_long" :> PyStr(4)) @@ ("common_endo_names_long" :> PyStr(5))
    @@ ("common_shocks" :> PyStr(6)) @@ ("long_shock_list" :> PyStr(4))

RunLocals == {Locals(n_col, mode) : n_col \in 1..2, mode \in {0, 1}}

\* A run that has evaluated its widgets.
OptionsRun(run, upload, locals, session_state) ==
  [stage |-> "widgets", run |-> run, upload |-> upload, locals |-> locals,
   session_state |-> session_state, yaml_load_error |-> FALSE, exc |-> ReturnNone,
   plot_options |-> Dict(<<>>, NoDoc)]

InitOptions ==
  /\ \E upload \in Uploads, locals \in RunLocals :
       app = OptionsRun(1, upload, locals, NoDoc)
  /\ M_ = MultiMeta
  /\ irfs = MultiFields(1)
  /\ call = NoCall
  /\ ret = ReturnNone
  /\ prev = NoPrev
  /\ fig = NoFig

\* The load of the uploaded document into the session state.
LoadOptions ==
  /\ app.stage = "widgets"
  /\ app' =
       IF app.upload.kind = "none"
       THEN [app EXCEPT !.stage = "loaded",
                        !.session_state =
                          SetItem(SetItem(@, "yaml_rerun_done", PyBool(FALSE)),
                                  "yaml_needs_rerun", PyBool(FALSE))]
       ELSE IF app.upload.kind = "invalid"
       THEN [app EXCEPT !.stage = "loaded", !.yaml_load_error = TRUE,
                        !.session_state =
                          SetItem(SetItem(@, "yaml_rerun_done", PyBool(FALSE)),
                                  "yaml_needs_rerun", PyBool(FALSE))]
       ELSE IF app.upload.kind = "other"
       THEN [app EXCEPT !.stage = "error", !.exc = Raise("AttributeError", "get")]
       ELSE [app EXCEPT !.stage = "loaded",
                        !.session_state =
                          SetItem(LoadedItems(@, app.upload.doc),
                                  "yaml_needs_rerun", PyBool(TRUE))]
  /\ UNCHANGED <<M_, irfs, call, ret, prev, fig>>

\* The save loop and the document offered for download.
SaveOptions ==
  /\ app.stage = "loaded"
  /\ app' = [app EXCEPT !.stage = "saved", !.plot_options = SavedOptions(app.locals)]
  /\ UNCHANGED <<M_, irfs, call, ret, prev, fig>>

\* The next run of the script: the session state and the uploaded file are
\* kept, the widgets are evaluated again.
Rerun(locals) ==
  /\ app.stage = "saved"
  /\ app.run < MaxRuns
  /\ app' = OptionsRun(app.run + 1, app.upload, locals, app.session_state)
  /\ UNCHANGED <<M_, irfs, call, ret, prev, fig>>

NextOptions ==
  \/ LoadOptions
  \/ SaveOptions
  \/ \E locals \in RunLocals : Rerun(locals)

SpecOptions == InitOptions /\ [][NextOptions]_vars

\* The names of the selected variables and of the selected shock.
SelectionKeys == {"selected_endo_names_long", "selected_shock_long"}

\* C22: the document saved never has the keys selected_endo_names_long or
\* selected_shock_long, and a load never writes those keys, nor
\* endo_names_long or shock_names, into the session state.
C22_SelectionsExcluded ==
  /\ app.stage = "saved" => SeqToSet(app.plot_options.keys) \cap SelectionKeys = {}
  /\ app.stage \in {"loaded", "saved"} =>
       DOMAIN app.session_state \cap (SelectionKeys \cup LoadSkipped) = {}

====
